---- MODULE Spec2Model ----
(***************************************************************************)
(* Model of verify_layout.py: verify() drives one headless browser through *)
(* two checks (homepage, docs).  Every statement of verify() is one action *)
(* guarded by the program counter; every library call either returns or    *)
(* raises.  The script may be run again (Rerun): the file system persists  *)
(* between runs, everything else is rebuilt.                               *)
(***************************************************************************)
EXTENDS Integers, Sequences, FiniteSets, TLC

VARIABLES
    pc,                  \* statement of verify() about to execute
    exc,                 \* an exception is propagating out of the with-body
    status,              \* "running", or the way the run ended: "ok" / "error"
    pw,                  \* sync_playwright() context: "none", "started", "stopped"
    browserOpen,         \* the launched browser process is alive
    nBrowsers,           \* browsers launched by this run
    nPages,              \* pages opened by this run
    page,                \* local `page`: id of the page object (0 = unbound)
    url,                 \* what the page currently shows: "blank", "home", "docs"
    header_height_home,  \* local of line 10
    header_height_docs,  \* local of line 16
    stdout,              \* lines printed by this run
    written,             \* paths written by this run, in order
    fs,                  \* working directory: path -> page captured in the file
    calls,               \* calls made by this run, in order
    run,                 \* which run of the script this is
    server,              \* the development server at localhost:6007
    changed,             \* the header heights changed between the previous run and this one
    prev                 \* outputs of the previous run

vars == <<pc, exc, status, pw, browserOpen, nBrowsers, nPages, page, url,
          header_height_home, header_height_docs, stdout, written, fs, calls,
          run, server, changed, prev>>

Range(q) == {q[i] : i \in DOMAIN q}

\* What the call log says: how often a call was made, whether it returned or raised.
Count(op, pg) ==
    Cardinality({i \in DOMAIN calls : calls[i].op = op /\ calls[i].pg = pg})
Returned(op, pg) ==
    \E i \in DOMAIN calls : calls[i].op = op /\ calls[i].pg = pg /\ calls[i].ok
Raised(op, pg) ==
    \E i \in DOMAIN calls : calls[i].op = op /\ calls[i].pg = pg /\ ~calls[i].ok

\* Number of successive runs of the script that are explored.
MaxRuns == 2

Pages == {"home", "docs"}
\* document.querySelector('header') finds no element on the page.
Absent == -1
\* An unbound local.
None == << >>
\* offsetHeight values a header can have (0: a collapsed header; 64: the spec's example).
Heights == {0, 64}

\* The server: reachable or not, and per page the header's height (or no header).
ServerStates == [up : BOOLEAN, h : [Pages -> Heights \cup {Absent}]]

\* Variant: each check takes its screenshot before it prints.
ProgramShotFirst ==
    << "enter", "launch", "new_page",
       "goto_home", "eval_home", "shot_home", "print_home",
       "goto_docs", "eval_docs", "shot_docs", "print_docs",
       "close" >>

\* The statements of verify(), in source order.
Program ==
    << "enter", "launch", "new_page",
       "goto_home", "eval_home", "print_home", "shot_home",
       "goto_docs", "eval_docs", "print_docs", "shot_docs",
       "close" >>

\* Falling off the end of the with-body runs the context manager's exit.
Succ(label) ==
    LET i == CHOOSE k \in 1..Len(Program) : Program[k] = label
    IN  IF i < Len(Program) THEN Program[i + 1] ELSE "exit_with"

\* Variant: the browser is not held by a with-block, so an exception leaves
\* verify() at once.
UnwindNoScope == "done"

\* Variant: the body is wrapped in try/finally: browser.close().
UnwindFinallyClose == "close"

\* An exception raised inside the with-body unwinds through the context
\* manager's exit; nothing in the body catches it.
Unwind == "exit_with"

HomeLine(h) == "Homepage Header Height: " \o ToString(h) \o "px"

\* Variant: the docs print statement copied from the homepage one, label unchanged.
DocsLineCopied(h) == HomeLine(h)

DocsLine(h) == "Docs Header Height: " \o ToString(h) \o "px"

\* Variant: each run stamps its own file names instead of fixed ones.
ShotPathStamped(pg) ==
    (IF pg = "home" THEN "homepage_after" ELSE "docs_after") \o ToString(run) \o ".png"

ShotPath(pg) == IF pg = "home" THEN "homepage_after.png" ELSE "docs_after.png"

\* Writing a file creates it or overwrites the file of the same name.
WriteFile(f, path, content) ==
    [p \in DOMAIN f \cup {path} |-> IF p = path THEN content ELSE f[p]]

Log(op, pg, ok) ==
    calls' = Append(calls, [op |-> op, pg |-> pg, on |-> page, ok |-> ok])

\* Variant: every call is wrapped in try/except: pass.
AfterIgnoring(label, ok) ==
    /\ pc' = Succ(label)
    /\ exc' = exc

\* Control after a call of the with-body: the next statement, or unwinding.
After(label, ok) ==
    /\ pc' = IF ok THEN Succ(label) ELSE Unwind
    /\ exc' = ~ok

Init ==
    /\ pc = "enter"
    /\ exc = FALSE
    /\ status = "running"
    /\ pw = "none"
    /\ browserOpen = FALSE
    /\ nBrowsers = 0
    /\ nPages = 0
    /\ page = 0
    /\ url = "blank"
    /\ header_height_home = None
    /\ header_height_docs = None
    /\ stdout = << >>
    /\ written = << >>
    /\ fs = << >>
    /\ calls = << >>
    /\ run = 1
    /\ server \in ServerStates
    /\ changed = FALSE
    /\ prev = [stdout |-> << >>, written |-> << >>, status |-> "none"]

\* with sync_playwright() as p:   -- if entering raises, the body never runs.
Enter ==
    /\ pc = "enter"
    /\ \E ok \in BOOLEAN :
        /\ Log("start", "-", ok)
        /\ pw' = IF ok THEN "started" ELSE pw
        /\ pc' = IF ok THEN Succ("enter") ELSE "done"
        /\ exc' = ~ok
        /\ status' = IF ok THEN status ELSE "error"
    /\ UNCHANGED <<browserOpen, nBrowsers, nPages, page, url, header_height_home,
                   header_height_docs, stdout, written, fs, run, server, changed, prev>>

\* browser = p.chromium.launch()
Launch ==
    /\ pc = "launch"
    /\ \E ok \in BOOLEAN :
        /\ Log("launch", "-", ok)
        /\ browserOpen' = ok
        /\ nBrowsers' = IF ok THEN nBrowsers + 1 ELSE nBrowsers
        /\ After("launch", ok)
    /\ UNCHANGED <<status, pw, nPages, page, url, header_height_home,
                   header_height_docs, stdout, written, fs, run, server, changed, prev>>

\* page = browser.new_page()
NewPage ==
    /\ pc = "new_page"
    /\ \E ok \in BOOLEAN :
        /\ Log("new_page", "-", ok)
        /\ nPages' = IF ok THEN nPages + 1 ELSE nPages
        /\ page' = IF ok THEN nPages + 1 ELSE page
        /\ url' = IF ok THEN "blank" ELSE url
        /\ After("new_page", ok)
    /\ UNCHANGED <<status, pw, browserOpen, nBrowsers, header_height_home,
                   header_height_docs, stdout, written, fs, run, server, changed, prev>>

\* Variant: a failed navigation is retried once before giving up.
GotoRetry(label, pg) ==
    /\ pc = label
    /\ \E ok \in BOOLEAN :
        /\ ok => server.up
        /\ Log("goto", pg, ok)
        /\ url' = IF ok THEN pg ELSE url
        /\ IF ok \/ Count("goto", pg) >= 1
              THEN After(label, ok)
              ELSE pc' = label /\ exc' = exc
    /\ UNCHANGED <<status, pw, browserOpen, nBrowsers, nPages, page, header_height_home,
                   header_height_docs, stdout, written, fs, run, server, changed, prev>>

\* Variant: the docs check opens a page of its own.
GotoFreshPage(label, pg) ==
    /\ pc = label
    /\ \E ok \in BOOLEAN :
        /\ ok => server.up
        /\ nPages' = IF pg = "docs" THEN nPages + 1 ELSE nPages
        /\ page' = IF pg = "docs" THEN nPages + 1 ELSE page
        /\ calls' = Append(calls, [op |-> "goto", pg |-> pg, on |-> page', ok |-> ok])
        /\ url' = IF ok THEN pg ELSE IF pg = "docs" THEN "blank" ELSE url
        /\ After(label, ok)
    /\ UNCHANGED <<status, pw, browserOpen, nBrowsers, header_height_home,
                   header_height_docs, stdout, written, fs, run, server, changed, prev>>

\* page.goto(url of pg): raises when the server is not reachable (or times out).
Goto(label, pg) ==
    /\ pc = label
    /\ \E ok \in BOOLEAN :
        /\ ok => server.up
        /\ Log("goto", pg, ok)
        /\ url' = IF ok THEN pg ELSE url
        /\ After(label, ok)
    /\ UNCHANGED <<status, pw, browserOpen, nBrowsers, nPages, page, header_height_home,
                   header_height_docs, stdout, written, fs, run, server, changed, prev>>

\* page.evaluate("() => document.querySelector('header').offsetHeight"):
\* reads the page now shown; raises when that page has no header.
Evaluate(label, pg) ==
    /\ pc = label
    /\ \E ok \in BOOLEAN :
        /\ ok => (url \in Pages /\ server.h[url] # Absent)
        /\ Log("evaluate", pg, ok)
        /\ header_height_home' =
              IF ok /\ pg = "home" THEN <<server.h[url]>> ELSE header_height_home
        /\ header_height_docs' =
              IF ok /\ pg = "docs" THEN <<server.h[url]>> ELSE header_height_docs
        /\ After(label, ok)
    /\ UNCHANGED <<status, pw, browserOpen, nBrowsers, nPages, page, url,
                   stdout, written, fs, run, server, changed, prev>>

\* print(f"... Header Height: {header_height}px")
PrintLine(label, pg) ==
    /\ pc = label
    /\ Log("print", pg, TRUE)
    /\ stdout' = Append(stdout, IF pg = "home" THEN HomeLine(header_height_home[1])
                                ELSE DocsLine(header_height_docs[1]))
    /\ After(label, TRUE)
    /\ UNCHANGED <<status, pw, browserOpen, nBrowsers, nPages, page, url,
                   header_height_home, header_height_docs, written, fs, run,
                   server, changed, prev>>

\* page.screenshot(path=ShotPath(pg), full_page=True): the file is written
\* when the call returns.
Screenshot(label, pg) ==
    /\ pc = label
    /\ \E ok \in BOOLEAN :
        /\ Log("screenshot", pg, ok)
        /\ fs' = IF ok THEN WriteFile(fs, ShotPath(pg), url) ELSE fs
        /\ written' = IF ok THEN Append(written, ShotPath(pg)) ELSE written
        /\ After(label, ok)
    /\ UNCHANGED <<status, pw, browserOpen, nBrowsers, nPages, page, url,
                   header_height_home, header_height_docs, stdout, run, server,
                   changed, prev>>

GotoHome == Goto("goto_home", "home")
EvalHome == Evaluate("eval_home", "home")
PrintHome == PrintLine("print_home", "home")
ShotHome == Screenshot("shot_home", "home")
GotoDocs == Goto("goto_docs", "docs")
EvalDocs == Evaluate("eval_docs", "docs")
PrintDocs == PrintLine("print_docs", "docs")
ShotDocs == Screenshot("shot_docs", "docs")

\* Variant: a failure of browser.close() is caught and dropped.
CloseQuiet ==
    /\ pc = "close"
    /\ \E ok \in BOOLEAN :
        /\ Log("close", "-", ok)
        /\ browserOpen' = IF ok THEN FALSE ELSE browserOpen
        /\ After("close", TRUE)
    /\ UNCHANGED <<status, pw, nBrowsers, nPages, page, url, header_height_home,
                   header_height_docs, stdout, written, fs, run, server, changed, prev>>

\* browser.close()
Close ==
    /\ pc = "close"
    /\ \E ok \in BOOLEAN :
        /\ Log("close", "-", ok)
        /\ browserOpen' = IF ok THEN FALSE ELSE browserOpen
        /\ After("close", ok)
    /\ UNCHANGED <<status, pw, nBrowsers, nPages, page, url, header_height_home,
                   header_height_docs, stdout, written, fs, run, server, changed, prev>>

\* Variant: on an exception the exit removes the files this run wrote.
WithExitRollback ==
    /\ pc = "exit_with"
    /\ pw' = "stopped"
    /\ browserOpen' = FALSE
    /\ pc' = "done"
    /\ status' = IF exc THEN "error" ELSE "ok"
    /\ fs' = IF exc THEN [p \in DOMAIN fs \ Range(written) |-> fs[p]] ELSE fs
    /\ UNCHANGED <<exc, nBrowsers, nPages, page, url, header_height_home,
                   header_height_docs, stdout, written, calls, run, server,
                   changed, prev>>

\* Leaving the with-block, normally or by an exception: the playwright
\* context stops, which ends the driver and every browser it launched; a
\* propagating exception then leaves verify() and ends the script in error.
WithExit ==
    /\ pc = "exit_with"
    /\ pw' = "stopped"
    /\ browserOpen' = FALSE
    /\ pc' = "done"
    /\ status' = IF exc THEN "error" ELSE "ok"
    /\ UNCHANGED <<exc, nBrowsers, nPages, page, url, header_height_home,
                   header_height_docs, stdout, written, fs, calls, run, server,
                   changed, prev>>

\* The script is run again: a new process, the same working directory; the
\* server may have changed in between.
Rerun ==
    /\ pc = "done"
    /\ run < MaxRuns
    /\ \E s \in ServerStates :
        /\ server' = s
        /\ changed' = (s.h # server.h)
    /\ prev' = [stdout |-> stdout, written |-> written, status |-> status]
    /\ run' = run + 1
    /\ pc' = "enter"
    /\ exc' = FALSE
    /\ status' = "running"
    /\ pw' = "none"
    /\ browserOpen' = FALSE
    /\ nBrowsers' = 0
    /\ nPages' = 0
    /\ page' = 0
    /\ url' = "blank"
    /\ header_height_home' = None
    /\ header_height_docs' = None
    /\ stdout' = << >>
    /\ written' = << >>
    /\ calls' = << >>
    /\ UNCHANGED fs

RunStep ==
    \/ Enter
    \/ Launch
    \/ NewPage
    \/ GotoHome
    \/ EvalHome
    \/ PrintHome
    \/ ShotHome
    \/ GotoDocs
    \/ EvalDocs
    \/ PrintDocs
    \/ ShotDocs
    \/ Close
    \/ WithExit

Next == RunStep \/ Rerun

Spec == Init /\ [][Next]_vars

\* One thread runs the statements in turn and every call returns or raises,
\* so a run that can take a step takes it.
FairSpec == Spec /\ WF_vars(RunStep)

(***************************************************************************)
(* Properties                                                              *)
(***************************************************************************)

IsHomepageLine(s) == \E h \in Heights : s = "Homepage Header Height: " \o ToString(h) \o "px"
IsDocsPageLine(s) == \E h \in Heights : s = "Docs Header Height: " \o ToString(h) \o "px"

\* The calls of the two checks all returned.
ChecksReturned ==
    /\ Returned("launch", "-")
    /\ \A pg \in Pages :
        Returned("goto", pg) /\ Returned("evaluate", pg) /\ Returned("screenshot", pg)

\* C1: a run in which launch, both navigations, both evaluations and both
\* screenshots succeeded ends with exactly two lines printed, the Homepage
\* line then the Docs line, and exactly two files written, homepage_after.png
\* then docs_after.png.
C1_TwoLinesTwoFiles ==
    (pc = "done" /\ ChecksReturned) =>
        /\ Len(stdout) = 2
        /\ IsHomepageLine(stdout[1])
        /\ IsDocsPageLine(stdout[2])
        /\ written = << "homepage_after.png", "docs_after.png" >>

C1_Witness == pc = "done" /\ ChecksReturned /\ status = "ok" /\ Len(stdout) = 2

\* C2: when the first page.goto raises, the run ends in error having written
\* neither file and printed neither line.
C2_UnreachableNoOutput ==
    Raised("goto", "home") =>
        /\ pc \in {"exit_with", "done"}
        /\ stdout = << >>
        /\ written = << >>
        /\ pc = "done" => status = "error"

C2_Witness == Raised("goto", "home") /\ pc = "done" /\ ~server.up

\* C3: a run that launched the browser never ends with the browser still
\* open, whether every step succeeded or a later step raised.
C3_BrowserTornDown ==
    (pc = "done" /\ Returned("launch", "-")) => (~browserOpen /\ pw = "stopped")

C3_Witness ==
    pc = "done" /\ Returned("launch", "-") /\ Raised("evaluate", "docs") /\ ~browserOpen

\* C4: no step is attempted twice in a run, and a call that raised is the
\* last call of its run.
C4_FailFastNoRetry ==
    /\ \A i, j \in DOMAIN calls :
        (calls[i].op = calls[j].op /\ calls[i].pg = calls[j].pg) => i = j
    /\ \A i \in DOMAIN calls : ~calls[i].ok => i = Len(calls)

C4_Witness ==
    pc = "done" /\ Raised("evaluate", "home") /\ Returned("goto", "home") /\ server.up

\* C5: when two successive runs both complete against header heights that did
\* not change in between, the second prints the same lines and writes the
\* same file names as the first, and the directory holds exactly
\* homepage_after.png and docs_after.png.
C5_Idempotent ==
    (pc = "done" /\ run >= 2 /\ ~changed /\ prev.status = "ok" /\ status = "ok") =>
        /\ stdout = prev.stdout
        /\ written = prev.written
        /\ DOMAIN fs = {"homepage_after.png", "docs_after.png"}

C5_Witness ==
    /\ pc = "done" /\ run >= 2 /\ ~changed /\ prev.status = "ok" /\ status = "ok"
    /\ Len(stdout) = 2 /\ Len(prev.stdout) = 2

\* A step of the docs check raised.
DocsStepRaised ==
    Raised("goto", "docs") \/ Raised("evaluate", "docs") \/ Raised("screenshot", "docs")

\* C6: when the homepage check completed and a step of the docs check raised,
\* the run ends in error with the Homepage line printed, homepage_after.png
\* present and docs_after.png not written by the run.
C6_NoRollback ==
    (pc = "done" /\ Returned("screenshot", "home") /\ DocsStepRaised) =>
        /\ status = "error"
        /\ Len(stdout) >= 1 /\ IsHomepageLine(stdout[1])
        /\ "homepage_after.png" \in DOMAIN fs
        /\ "docs_after.png" \notin Range(written)

C6_Witness ==
    /\ pc = "done" /\ Returned("screenshot", "home") /\ Raised("screenshot", "docs")
    /\ "homepage_after.png" \in DOMAIN fs /\ run = 1

\* Every call of verify() returned.
AllReturned ==
    /\ ChecksReturned
    /\ Returned("new_page", "-")
    /\ Returned("close", "-")

\* C7: every run terminates, and it ends normally exactly when launch,
\* new_page, both goto, both evaluate, both screenshot calls and
\* browser.close all succeeded; every other run ends in error.
C7_TerminatesWithStatus ==
    /\ (status = "running") ~> (pc = "done")
    /\ [](pc = "done" =>
            /\ status \in {"ok", "error"}
            /\ status = "ok" <=> AllReturned)

C7_Witness == pc = "done" /\ status = "error" /\ Raised("close", "-") /\ ChecksReturned

\* A call before browser.close() raised.
EarlierStepRaised ==
    \/ Raised("launch", "-")
    \/ Raised("new_page", "-")
    \/ \E pg \in Pages :
        Raised("goto", pg) \/ Raised("evaluate", pg) \/ Raised("screenshot", pg)

\* C8: browser.close() is called exactly once in a run whose earlier steps
\* all succeeded and never in a run where one of them raised.
C8_ExplicitClose ==
    /\ Count("close", "-") <= 1
    /\ pc = "done" =>
        /\ (ChecksReturned /\ Returned("new_page", "-")) => Count("close", "-") = 1
        /\ EarlierStepRaised => Count("close", "-") = 0

C8_Witness ==
    pc = "done" /\ Raised("screenshot", "home") /\ Count("close", "-") = 0 /\ ~browserOpen

OnPage(op) == op \in {"goto", "evaluate", "screenshot"}

\* C9: a run launches at most one browser and opens at most one page, both
\* before the first navigation, and every navigation, evaluation and
\* screenshot acts on that one page.
C9_OneBrowserOnePage ==
    /\ nBrowsers <= 1 /\ Count("launch", "-") <= 1
    /\ nPages <= 1 /\ Count("new_page", "-") <= 1
    /\ \A i \in DOMAIN calls :
        OnPage(calls[i].op) =>
            /\ calls[i].on = 1
            /\ \A j \in DOMAIN calls :
                calls[j].op \in {"launch", "new_page"} => j < i

C9_Witness ==
    pc = "done" /\ Returned("screenshot", "docs") /\ nPages = 1 /\ nBrowsers = 1 /\ page = 1

\* C10: in every state, a screenshot file written by the run implies the
\* page's height line is printed, the docs navigation has started only if
\* homepage_after.png is written, and the Docs line is printed only if the
\* Homepage line is.
C10_Sequential ==
    /\ "homepage_after.png" \in Range(written) => \E k \in DOMAIN stdout : IsHomepageLine(stdout[k])
    /\ "docs_after.png" \in Range(written) => \E k \in DOMAIN stdout : IsDocsPageLine(stdout[k])
    /\ Count("goto", "docs") > 0 => "homepage_after.png" \in Range(written)
    /\ (\E k \in DOMAIN stdout : IsDocsPageLine(stdout[k])) =>
            (\E k \in DOMAIN stdout : IsHomepageLine(stdout[k]))

C10_Witness ==
    /\ pc = "shot_docs" /\ Count("goto", "docs") = 1
    /\ Len(stdout) = 2 /\ written = << "homepage_after.png" >>

====
